---- MODULE Spec2Model ----
(***************************************************************************)
(* Model of mortonnd::MortonNDLutEncoder (mortonND_LUT_encoder.h).         *)
(*                                                                         *)
(* An integer value is the set of the positions of its 1 bits, so that a   *)
(* 64-bit (or 128-bit) value is exact: x & y is the intersection, x | y    *)
(* the union, a shift moves the positions, and a conversion to a type of   *)
(* w bits keeps the positions below w.  Bits and Val convert small         *)
(* naturals to and from this form.                                         *)
(***************************************************************************)
EXTENDS Integers, Sequences, FiniteSets, TLC

VARIABLES cfg, phase, LookupTable, last, thr

vars == <<cfg, phase, LookupTable, last, thr>>

(***************************************************************************)
(* Bounds of the model.                                                    *)
(***************************************************************************)
\* template parameters explored: Dimensions, FieldBits, LutBits up to these
MaxDim == 2
MaxFieldBits == 4
MaxLutBits == 4
\* every argument tuple is tried when Dimensions * FieldBits is at most this
MaxResultBits == 7
\* arguments may have bits set at this many positions above FieldBits
DirtyBits == 1
\* concurrent callers, and the table reads of one call they make at most
NumThreads == 2
MaxConcLookups == 2

(***************************************************************************)
(* Bit-set integers.                                                       *)
(***************************************************************************)
Min(a, b) == IF a < b THEN a ELSE b

Bits(n) == {b \in 0..30 : (n \div (2^b)) % 2 = 1}

RECURSIVE Val(_)
Val(x) == IF x = {} THEN 0
          ELSE LET b == CHOOSE c \in x : TRUE IN 2^b + Val(x \ {b})

And(x, y) == x \cap y
Or(x, y) == x \cup y
\* x >> n and x << n in an unsigned type of w bits
Shr(x, n) == {b - n : b \in {c \in x : c >= n}}
Shl(x, n, w) == {b + n : b \in {c \in x : c + n < w}}
\* conversion to an unsigned type of w bits
Trunc(x, w) == {b \in x : b < w}

(***************************************************************************)
(* Integral types: digits is std::numeric_limits<T>::digits.               *)
(***************************************************************************)
U(w) == [digits |-> w, signed |-> FALSE]
S(w) == [digits |-> w - 1, signed |-> TRUE]
Width(T) == IF T.signed THEN T.digits + 1 ELSE T.digits

\* std::size_t of the 64-bit build, and int
SizeT == U(64)
IntT == S(32)

\* Integral promotion: a type narrower than int is promoted to int.
Promoted(T) == IF Width(T) < Width(IntT) THEN IntT ELSE T

\* ~x, x >> n, x << n evaluated on an operand of type T after promotion.
\* A negative int (bit 31 set) shifts right arithmetically.
NotP(T, x) == (0..(Width(Promoted(T)) - 1)) \ x
ShrP(T, x, n) ==
    LET P == Promoted(T)
        top == Width(P) - 1
    IN  {b \in 0..top : \/ b + n \in x
                        \/ P.signed /\ top \in x /\ b + n > top}
ShlP(T, x, n) == Shl(x, n, Width(Promoted(T)))
\* conversion of a promoted value (back) to the unsigned type T
ToT(T, x) == Trunc(x, Width(T))

(***************************************************************************)
(* mortonND_LUT.h: MinInt<W>, the narrowest unsigned type of >= W bits.    *)
(***************************************************************************)
MinInt(w) == IF w <= 8 THEN U(8)
             ELSE IF w <= 16 THEN U(16)
             ELSE IF w <= 32 THEN U(32)
             ELSE U(64)

(***************************************************************************)
(* Template parameters and the derived static members.                     *)
(***************************************************************************)
Config(d, f, l, t) == [Dimensions |-> d, FieldBits |-> f, LutBits |-> l, T |-> t]

LutValueWidth(c) == c.LutBits * c.Dimensions

\* the static_assert block without the assertion that T is unsigned
ValidNoUnsignedCheck(c) ==
    /\ c.Dimensions > 0
    /\ c.FieldBits > 0
    /\ c.LutBits > 0
    /\ c.LutBits <= c.FieldBits
    /\ c.LutBits <= 32
    /\ c.LutBits * c.Dimensions <= 64
    /\ c.LutBits * c.Dimensions <= SizeT.digits
    /\ c.T.digits >= c.Dimensions * c.FieldBits

\* the static_assert block: TRUE iff the class template instantiates
Valid(c) ==
    /\ c.Dimensions > 0
    /\ c.FieldBits > 0
    /\ c.LutBits > 0
    /\ c.LutBits <= c.FieldBits
    /\ c.LutBits <= 32
    /\ LutValueWidth(c) <= 64
    /\ LutValueWidth(c) <= SizeT.digits
    /\ c.T.digits >= c.Dimensions * c.FieldBits
    /\ ~c.T.signed

\* chunk counts that round the wrong way
ChunkCountTrunc(c) == c.FieldBits \div c.LutBits
ChunkCountExtra(c) == 1 + (c.FieldBits \div c.LutBits)

ChunkCount(c) == 1 + ((c.FieldBits - 1) \div c.LutBits)

LutValue(c) == MinInt(LutValueWidth(c))

InputMask(c) == ToT(c.T, ShrP(c.T, NotP(c.T, {}), c.T.digits - c.FieldBits))

RECURSIVE pow(_, _)
pow(base, exp) == IF exp = 0 THEN 1 ELSE base * pow(base, exp - 1)

ComputeLutSize(c) == pow(2, c.LutBits)
LutSize(c) == ComputeLutSize(c)

\* a mask of LutBits + 1 bits
ChunkMaskWide(c) == Shr(NotP(SizeT, {}), SizeT.digits - c.LutBits - 1)

ChunkMask(c) == Shr(NotP(SizeT, {}), SizeT.digits - c.LutBits)

(***************************************************************************)
(* Lookup table generation.                                                *)
(***************************************************************************)
\* a split that ignores the stride
RECURSIVE SplitByNNoStride(_, _, _)
SplitByNNoStride(BitsRemaining, input, fields) ==
    IF BitsRemaining = 1
    THEN And(input, Bits(1))
    ELSE Or(Shl(SplitByNNoStride(BitsRemaining - 1, Shr(input, 1), fields), 1, SizeT.digits),
            And(input, Bits(1)))

\* mortonnd::SplitByN<BitsRemaining>(input, fields), computed in std::size_t
RECURSIVE SplitByN(_, _, _)
SplitByN(BitsRemaining, input, fields) ==
    IF BitsRemaining = 1
    THEN And(input, Bits(1))
    ELSE Or(Shl(SplitByN(BitsRemaining - 1, Shr(input, 1), fields), fields, SizeT.digits),
            And(input, Bits(1)))

\* a table generated from the index sequence 1, 2, ...
LutEntryFromOne(c, input) ==
    Trunc(SplitByN(c.LutBits, Bits(input + 1), c.Dimensions), MinInt(c.LutBits * c.Dimensions).digits)

\* MortonNDLutEncoder::SplitByN(input): the table entry for index 'input'
LutEntry(c, input) ==
    Trunc(SplitByN(c.LutBits, Bits(input), c.Dimensions), LutValue(c).digits)

\* The std::array is the sequence of its elements: element i of the array is
\* element i + 1 of the sequence.
At(tbl, i) == tbl[i + 1]

\* BuildLut(std::make_index_sequence<LutSize>{})
BuildLut(c) == [i \in 1..LutSize(c) |-> LutEntry(c, i - 1)]

(***************************************************************************)
(* Encode.  A call reads one table entry per field and chunk, then folds   *)
(* the entries read with shifts and ors.                                   *)
(***************************************************************************)
Fields(c) == 0..(c.Dimensions - 1)
Chunks(c) == 1..ChunkCount(c)
Lookups(c) == Fields(c) \X Chunks(c)

\* The template recursion of LookupField and EncodeInternal is unrolled at
\* compile time into one expression of ChunkCount (Dimensions) nested calls.
\* The definitions below give the value at the n-th (k-th) level of that
\* expression: an operand that passes through j enclosing calls is shifted j
\* times and converted to T j times, which for unsigned values is one shift by
\* the sum and one conversion.

\* every nested call looking at the low bits of the unshifted field
ChunkFieldNoShift(c, field, n) == ToT(c.T, field)

\* The field as the n-th nested LookupField call receives it: field >> LutBits
\* applied n - 1 times, converted to the parameter type T each time.
ChunkField(c, field, n) == ToT(c.T, Shr(ToT(c.T, field), (n - 1) * c.LutBits))

\* std::size_t(field & ChunkMask) of the n-th nested LookupField call
ChunkIndex(c, field, n) == Val(And(ChunkField(c, field, n), ChunkMask(c)))

\* chunks combined with a shift of LutBits instead of Dimensions * LutBits
LookupFieldShiftLut(c, rd, n) ==
    UNION {ToT(c.T, ShlP(c.T, ToT(c.T, rd[m]), (m - n) * c.LutBits)) : m \in n..ChunkCount(c)}

\* chunks combined in the reverse order: the first chunk in the highest place
LookupFieldReversed(c, rd, n) ==
    UNION {ToT(c.T, ShlP(c.T, ToT(c.T, rd[m]), (ChunkCount(c) - m) * c.Dimensions * c.LutBits)) :
              m \in n..ChunkCount(c)}

\* LookupField(field, I...): the value its n-th nested call returns, over the
\* table entries rd[1..ChunkCount] read for this field:
\*   (LookupField(field >> LutBits, args...) << (Dimensions * LutBits)) | T(LookupTable[...])
\* and LookupTable[...] in the last call (n = ChunkCount)
LookupField(c, rd, n) ==
    UNION {ToT(c.T, ShlP(c.T, ToT(c.T, rd[m]), (m - n) * c.Dimensions * c.LutBits)) :
              m \in n..ChunkCount(c)}

\* the table entries read for field k, in the order of the nested calls
FieldReads(c, reads, k) == [n \in Chunks(c) |-> reads[<<k, n>>]]

\* the operands of the | in the n-th nested call of LookupField, n < ChunkCount:
\*   LookupField(field >> LutBits, args...) << (Dimensions * LutBits)
\*   T(LookupTable[std::size_t(field & ChunkMask)])
LookupFieldShifted(c, rd, n) ==
    ShlP(c.T, LookupField(c, rd, n + 1), c.Dimensions * c.LutBits)
LookupFieldEntry(c, rd, n) == ToT(c.T, rd[n])

\* fields combined with a shift by two
EncodeInternalShiftTwo(c, reads, k) ==
    UNION {ToT(c.T, ShlP(c.T, LookupField(c, FieldReads(c, reads, j), 1), 2 * (j - k))) :
              j \in k..(c.Dimensions - 1)}

\* fields combined without the shift by one
EncodeInternalNoShift(c, reads, k) ==
    UNION {LookupField(c, FieldReads(c, reads, j), 1) : j \in k..(c.Dimensions - 1)}

\* EncodeInternal(field_k, fields...) over the entries read, reads[<<k, n>>]:
\*   (EncodeInternal(fields...) << 1U) | LookupField(field_k, ...)
\* and LookupField(field_k, ...) for the last field
EncodeInternal(c, reads, k) ==
    UNION {ToT(c.T, ShlP(c.T, LookupField(c, FieldReads(c, reads, j), 1), j - k)) :
              j \in k..(c.Dimensions - 1)}

\* the left operand of the | in EncodeInternal for field k, k < Dimensions - 1:
\*   EncodeInternal(fields...) << 1U
EncodeInternalShifted(c, reads, k) == ShlP(c.T, EncodeInternal(c, reads, k + 1), 1)

\* the entries one call reads from table tbl for the arguments a[0..Dimensions-1]
TableReads(c, tbl, a) == [p \in Lookups(c) |-> At(tbl, ChunkIndex(c, a[p[1]], p[2]))]

Encode(c, tbl, a) == EncodeInternal(c, TableReads(c, tbl, a), 0)

\* a call that stops looking up a field once the chunks left of it are zero
PerformedSkipZero(c, a) == {p \in Lookups(c) : p[2] = 1 \/ ChunkField(c, a[p[1]], p[2]) # {}}

\* The lookups one call performs for the arguments a: the expression of the
\* nested calls has no branch, so every field is looked up ChunkCount times.
Performed(c, a) == Lookups(c)

\* the table index of every lookup the call performs
Indices(c, a) == [p \in Performed(c, a) |-> ChunkIndex(c, a[p[1]], p[2])]

\* std::array::operator[] does not check its index: an index outside the
\* array is undefined behaviour, and the read then yields any LutValue (here
\* the two extreme ones).
InBounds(tbl, i) == i < Len(tbl)
OutOfBounds(c) == {{}, 0..(Width(LutValue(c)) - 1)}
ReadOutcomes(c, tbl, i) == IF InBounds(tbl, i) THEN {At(tbl, i)} ELSE OutOfBounds(c)

\* the values a call of Encode can return
EncodeOutcomes(c, tbl, a) ==
    IF \A p \in Lookups(c) : InBounds(tbl, ChunkIndex(c, a[p[1]], p[2]))
    THEN {Encode(c, tbl, a)}
    ELSE {EncodeInternal(c, [p \in Lookups(c) |->
                                LET i == ChunkIndex(c, a[p[1]], p[2])
                                IN  IF InBounds(tbl, i) THEN At(tbl, i) ELSE g], 0) :
             g \in OutOfBounds(c)}


(***************************************************************************)
(* Configurations and inputs the model explores.                           *)
(***************************************************************************)
Types == {U(8), U(16), U(32), U(64), U(128), S(8), S(16), S(32), S(64)}

SmallConfigs ==
    {Config(d, f, l, t) : d \in 0..MaxDim, f \in 0..MaxFieldBits,
                          l \in 0..MaxLutBits, t \in Types}

\* the presets, the scenario of the documentation, full-width fields and
\* configurations at the limits of the static_assert block
WideConfigs ==
    { Config(2, 16, 8, U(32)), Config(2, 32, 11, U(64)),
      Config(3, 10, 10, U(32)), Config(3, 21, 11, U(64)),
      Config(2, 8, 4, U(16)), Config(2, 8, 4, U(8)),
      Config(1, 8, 8, U(8)), Config(1, 8, 3, U(8)), Config(1, 16, 4, U(16)),
      Config(1, 32, 4, U(32)), Config(1, 64, 4, U(64)), Config(4, 16, 5, U(64)),
      Config(3, 3, 3, U(16)), Config(3, 3, 2, U(16)), Config(5, 12, 6, U(64)),
      Config(1, 33, 33, U(64)), Config(33, 2, 2, U(128)), Config(2, 33, 2, U(64)),
      Config(2, 32, 2, S(64)), Config(32, 2, 2, U(64)) }

Configs == SmallConfigs \cup WideConfigs

\* the single bits of T above FieldBits, up to DirtyBits positions above the
\* last chunk
DirtySingles(c) ==
    {{b} : b \in c.FieldBits..(Min(ChunkCount(c) * c.LutBits + DirtyBits, Width(c.T)) - 1)}

\* values of type T with bits at most DirtyBits positions above FieldBits,
\* the single dirty bits, and the value with every bit of T set
Inputs(c) ==
    SUBSET (0..(Min(c.FieldBits + DirtyBits, Width(c.T)) - 1))
        \cup DirtySingles(c) \cup {0..(Width(c.T) - 1)}
InRange(c, v) == v \subseteq 0..(c.FieldBits - 1)

\* for a wide field: zero, all ones, the patterns 5 and 9, every single bit,
\* every bit of T set
SparseInputs(c) ==
    {{}, 0..(c.FieldBits - 1), And(Bits(5), 0..(c.FieldBits - 1)), And(Bits(9), 0..(c.FieldBits - 1)),
     0..(Width(c.T) - 1)}
    \cup {{b} : b \in 0..(c.FieldBits - 1)} \cup DirtySingles(c)

\* argument tuples of one Encode call: every tuple for a small configuration;
\* for a wide one, one sparse field with the others zero, or all fields alike,
\* or the fields alternating 5 and 9
Args(c) ==
    IF c.Dimensions * c.FieldBits <= MaxResultBits
    THEN [Fields(c) -> Inputs(c)]
    ELSE {[k \in Fields(c) |-> IF k = j THEN v ELSE {}] : j \in Fields(c), v \in SparseInputs(c)}
         \cup {[k \in Fields(c) |-> v] : v \in SparseInputs(c)}
         \cup {[k \in Fields(c) |-> IF k % 2 = 0 THEN Bits(5) ELSE Bits(9)]}

(***************************************************************************)
(* State machine: one encoder instance and its single caller.              *)
(***************************************************************************)
NoTable == <<>>
NoCall == [op |-> "none", args |-> <<>>, idx |-> <<>>, result |-> {}]
Threads == 1..NumThreads
IdleThread == [pc |-> "idle", op |-> "none", args |-> <<>>, reads |-> <<>>, result |-> {}]

Init ==
    /\ cfg \in Configs
    /\ phase = "unconstructed"
    /\ LookupTable = NoTable
    /\ last = NoCall
    /\ thr = [t \in Threads |-> IdleThread]

\* instantiation of a configuration that passes the static_assert block
Construct ==
    /\ phase = "unconstructed"
    /\ Valid(cfg)
    /\ phase' = "building"
    /\ UNCHANGED <<cfg, LookupTable, last, thr>>

\* a configuration that fails a static_assert does not compile
Reject ==
    /\ phase = "unconstructed"
    /\ ~Valid(cfg)
    /\ phase' = "rejected"
    /\ UNCHANGED <<cfg, LookupTable, last, thr>>

\* an instance that is handed out once the first table entry exists
ConstructedEarly(c, tbl) == Len(tbl) >= 1

\* the member initializer of LookupTable is complete: all LutSize elements
\* of the std::array are initialized and the constructor returns
Constructed(c, tbl) == Len(tbl) = LutSize(c)

\* BuildLut: the initializers SplitByN(i)... of the array, in index order
BuildSlot ==
    /\ phase = "building"
    /\ LET tbl == Append(LookupTable, LutEntry(cfg, Len(LookupTable)))
       IN  /\ LookupTable' = tbl
           /\ phase' = IF Constructed(cfg, tbl) THEN "built" ELSE "building"
    /\ UNCHANGED <<cfg, last, thr>>

DoEncode ==
    /\ phase = "built"
    /\ last.op = "none"
    /\ \E a \in Args(cfg) : \E r \in EncodeOutcomes(cfg, LookupTable, a) :
          last' = [op |-> "Encode", args |-> a, idx |-> Indices(cfg, a), result |-> r]
    /\ UNCHANGED <<cfg, phase, LookupTable, thr>>

DoInputMask ==
    /\ phase = "built"
    /\ last.op = "none"
    /\ last' = [op |-> "InputMask", args |-> <<>>, idx |-> <<>>, result |-> InputMask(cfg)]
    /\ UNCHANGED <<cfg, phase, LookupTable, thr>>

\* the caller takes the returned value
Done ==
    /\ last.op # "none"
    /\ last' = NoCall
    /\ UNCHANGED <<cfg, phase, LookupTable, thr>>

Next == Construct \/ Reject \/ BuildSlot \/ DoEncode \/ DoInputMask \/ Done

Spec == Init /\ [][Next]_vars

(***************************************************************************)
(* State machine: one shared instance and NumThreads concurrent callers.   *)
(* A call reads its table entries one at a time, in any order (the order   *)
(* of evaluation of the operands of | is unspecified), the reads of the    *)
(* callers interleaved, and then returns the value folded from them.       *)
(***************************************************************************)
ConcConfigs ==
    {c \in SmallConfigs :
        /\ c.T \in {U(8), U(64)}
        /\ Valid(c)
        /\ c.Dimensions * ChunkCount(c) <= MaxConcLookups}

\* all fields zero, all fields 2^FieldBits - 1, all fields with dirty bits
ConcArgs(c) ==
    {[k \in Fields(c) |-> v] :
        v \in {{}, 0..(c.FieldBits - 1), 0..(Min(c.FieldBits + DirtyBits, Width(c.T)) - 1)}}

InitConc ==
    /\ cfg \in ConcConfigs
    /\ phase = "unconstructed"
    /\ LookupTable = NoTable
    /\ last = NoCall
    /\ thr = [t \in Threads |-> IdleThread]

\* a read that clears the entry it returns
ReadClears(tbl, i) == [tbl EXCEPT ![i + 1] = {}]

\* the table after LookupTable[i] in a const member function of a const array
TableAfterRead(tbl, i) == tbl

Call(t) ==
    /\ phase = "built"
    /\ thr[t].pc = "idle"
    /\ \E a \in ConcArgs(cfg) :
          thr' = [thr EXCEPT ![t] = [pc |-> "reading", op |-> "Encode", args |-> a,
                                     reads |-> <<>>, result |-> {}]]
    /\ UNCHANGED <<cfg, phase, LookupTable, last>>

Read(t) ==
    /\ thr[t].pc = "reading"
    /\ \E p \in Lookups(cfg) \ DOMAIN thr[t].reads :
          LET i == ChunkIndex(cfg, thr[t].args[p[1]], p[2])
              r == thr[t].reads
          IN  /\ \E v \in ReadOutcomes(cfg, LookupTable, i) :
                    thr' = [thr EXCEPT ![t].reads =
                               [q \in DOMAIN r \cup {p} |-> IF q = p THEN v ELSE r[q]]]
              /\ LookupTable' = TableAfterRead(LookupTable, i)
    /\ UNCHANGED <<cfg, phase, last>>

Return(t) ==
    /\ thr[t].pc = "reading"
    /\ DOMAIN thr[t].reads = Lookups(cfg)
    /\ thr' = [thr EXCEPT ![t].pc = "done",
                          ![t].result = EncodeInternal(cfg, thr[t].reads, 0)]
    /\ UNCHANGED <<cfg, phase, LookupTable, last>>

MaskCall(t) ==
    /\ phase = "built"
    /\ thr[t].pc = "idle"
    /\ thr' = [thr EXCEPT ![t] = [pc |-> "done", op |-> "InputMask", args |-> <<>>,
                                 reads |-> <<>>, result |-> InputMask(cfg)]]
    /\ UNCHANGED <<cfg, phase, LookupTable, last>>

\* the caller takes the returned value
Finish(t) ==
    /\ thr[t].pc = "done"
    /\ thr' = [thr EXCEPT ![t] = IdleThread]
    /\ UNCHANGED <<cfg, phase, LookupTable, last>>

NextConc ==
    \/ Construct
    \/ BuildSlot
    \/ \E t \in Threads : Call(t)
    \/ \E t \in Threads : Read(t)
    \/ \E t \in Threads : Return(t)
    \/ \E t \in Threads : MaskCall(t)
    \/ \E t \in Threads : Finish(t)

SpecConc == InitConc /\ [][NextConc]_vars

(***************************************************************************)
(* Properties.                                                             *)
(***************************************************************************)
MaxAltLutBits == 12

Encoded == last.op = "Encode"
ArgsInRange == \A k \in Fields(cfg) : InRange(cfg, last.args[k])
Arg(k, v) == [j \in Fields(cfg) |-> IF j = k THEN v ELSE {}]
Pair(x, y) == [j \in 0..1 |-> IF j = 0 THEN Bits(x) ELSE Bits(y)]

\* the loop-based reference: bit b of field k goes to position k + Dimensions * b
Interleave(c, a) ==
    UNION {{k + c.Dimensions * b : b \in And(a[k], 0..(c.FieldBits - 1))} : k \in Fields(c)}

\* Encode of an encoder constructed for configuration c, each table entry
\* generated when it is looked up
EncodeOf(c, a) ==
    EncodeInternal(c, [p \in Lookups(c) |-> LutEntry(c, ChunkIndex(c, a[p[1]], p[2]))], 0)

\* the configurations that differ from c in LutBits only
AltConfigs(c) ==
    {d \in {Config(c.Dimensions, c.FieldBits, l, c.T) :
                l \in 1..Min(c.FieldBits, MaxAltLutBits)} : Valid(d)}

\* C1: for in-range arguments of a valid configuration with
\* Dimensions * FieldBits <= 64, Encode returns the bit interleave of the
\* reference: bit k + Dimensions * b is bit b of field k, no other bit is set.
C1_EncodeIsInterleave ==
    (Encoded /\ ArgsInRange /\ cfg.Dimensions * cfg.FieldBits <= 64)
        => last.result = Interleave(cfg, last.args)

C1_Witness ==
    /\ Encoded
    /\ cfg = Config(2, 8, 4, U(16))
    /\ last.args = Pair(5, 9)
    /\ last.result = Bits(147)

\* C2: for in-range arguments, every valid encoder that differs only in
\* LutBits returns the result this encoder returned.
C2_LutBitsInvariance ==
    (Encoded /\ ArgsInRange)
        => \A d \in AltConfigs(cfg) : EncodeOf(d, last.args) = last.result

C2_Witness ==
    /\ Encoded
    /\ cfg = Config(2, 16, 8, U(32))
    /\ last.args = Pair(5, 9)
    /\ {d.LutBits : d \in AltConfigs(cfg)} = 1..MaxAltLutBits
    /\ last.result # {}

\* C3: InputMask() returns exactly 2^FieldBits - 1, for every width of T.
C3_InputMaskExact ==
    last.op = "InputMask" => last.result = 0..(cfg.FieldBits - 1)

\* C4: a configuration with Dimensions = 0, FieldBits = 0, LutBits = 0,
\* LutBits > FieldBits, LutBits > 32, Dimensions * LutBits > 64 (or the width
\* of std::size_t), a signed T, or a T of fewer than Dimensions * FieldBits
\* value bits never yields an instance: no table, no call.
C4_Rejected(c) ==
    \/ c.Dimensions = 0
    \/ c.FieldBits = 0
    \/ c.LutBits = 0
    \/ c.LutBits > c.FieldBits
    \/ c.LutBits > 32
    \/ c.Dimensions * c.LutBits > 64
    \/ c.T.signed
    \/ c.T.digits < c.Dimensions * c.FieldBits

C4_InvalidNeverConstructed ==
    C4_Rejected(cfg)
        => /\ phase \in {"unconstructed", "rejected"}
           /\ LookupTable = NoTable
           /\ last = NoCall
           /\ \A t \in Threads : thr[t] = IdleThread

C4_Witness ==
    /\ phase = "rejected"
    /\ cfg = Config(33, 2, 2, U(128))

\* the number of field bits the last chunk holds when FieldBits is not a
\* multiple of LutBits
PartialBits(c) == c.FieldBits % c.LutBits

\* the smallest multiple of LutBits that is >= FieldBits
ChunkedBits(c) == ((c.FieldBits + c.LutBits - 1) \div c.LutBits) * c.LutBits

\* C5 as stated: Encode ignores the bits above FieldBits of each field.
C5_IgnoresAboveFieldBits ==
    Encoded
        => last.result = Encode(cfg, LookupTable,
                                [k \in Fields(cfg) |-> And(last.args[k], 0..(cfg.FieldBits - 1))])

\* the bits of field k that reach the result: bit b is looked up when it lies
\* in one of the chunks, and lands at position k + Dimensions * b of T
KeptBits(c, k) ==
    {b \in 0..(Min(ChunkedBits(c), Width(c.T)) - 1) : k + c.Dimensions * b < Width(c.T)}

\* the arguments a with bit b of field k cleared
ClearBit(c, a, k, b) == [j \in Fields(c) |-> IF j = k THEN a[j] \ {b} ELSE a[j]]

\* C5 amended: Encode ignores exactly the bits b of field k with
\* b >= ChunkCount * LutBits or k + Dimensions * b >= width of T: masking
\* each field to its other bits leaves the result unchanged, while each of
\* the other bits that is set, above FieldBits or not, sets result bit
\* k + Dimensions * b, so clearing it changes the result.  When LutBits divides
\* FieldBits or Dimensions * FieldBits is the width of T these are the bits
\* above FieldBits, and the statement of C5 holds.
C5_IgnoresExactly ==
    Encoded
        => /\ last.result = Encode(cfg, LookupTable,
                                   [k \in Fields(cfg) |-> And(last.args[k], KeptBits(cfg, k))])
           /\ \A k \in Fields(cfg) : \A b \in And(last.args[k], KeptBits(cfg, k)) :
                 /\ k + cfg.Dimensions * b \in last.result
                 /\ last.result # Encode(cfg, LookupTable, ClearBit(cfg, last.args, k, b))
           /\ (PartialBits(cfg) = 0 \/ cfg.Dimensions * cfg.FieldBits = Width(cfg.T))
                 => last.result = Encode(cfg, LookupTable,
                                         [k \in Fields(cfg) |-> And(last.args[k], 0..(cfg.FieldBits - 1))])

\* <2, 3, 2, uint8_t> called with (255, 0): bit 3 of field 0, above FieldBits,
\* is looked up in the second chunk and sets result bit 6; the bits 4..7 are
\* ignored: the result is 85 = Encode(15, 0), not 21 = Encode(7, 0)
C5_Witness ==
    /\ Encoded
    /\ cfg = Config(2, 3, 2, U(8))
    /\ last.args = Pair(255, 0)
    /\ KeptBits(cfg, 0) = 0..3
    /\ last.result = Bits(85)
    /\ Encode(cfg, LookupTable, Pair(15, 0)) = Bits(85)
    /\ Encode(cfg, LookupTable, Pair(7, 0)) = Bits(21)

\* C6: Encode of field k = 2^b, b < FieldBits, and every other field 0 is
\* exactly 2^(k + Dimensions * b).
C6_SingleBit ==
    Encoded
        => \A k \in Fields(cfg) : \A b \in 0..(cfg.FieldBits - 1) :
              last.args = Arg(k, {b}) => last.result = {k + cfg.Dimensions * b}

C6_Witness ==
    /\ Encoded
    /\ cfg = Config(3, 21, 11, U(64))
    /\ last.args = Arg(2, {20})
    /\ last.result = {62}

\* C7: Encode of all fields 0 is 0.
C7_ZeroIsZero ==
    (Encoded /\ \A k \in Fields(cfg) : last.args[k] = {}) => last.result = {}

C7_Witness ==
    /\ Encoded
    /\ cfg = Config(2, 32, 11, U(64))
    /\ \A k \in Fields(cfg) : last.args[k] = {}
    /\ last.result = {}

\* C10: the constructed table has 2^LutBits entries, and entry i has bit
\* j * Dimensions set iff bit j of i is set (j < LutBits), and no other bit; so
\* entry i is below 2^(Dimensions * LutBits).
C10_TableIsSpread ==
    phase = "built"
        => /\ Len(LookupTable) = 2^cfg.LutBits
           /\ \A i \in 0..(2^cfg.LutBits - 1) :
                 /\ At(LookupTable, i) = {j * cfg.Dimensions : j \in And(Bits(i), 0..(cfg.LutBits - 1))}
                 /\ At(LookupTable, i) \subseteq 0..(cfg.Dimensions * cfg.LutBits - 1)

C10_Witness ==
    /\ phase = "built"
    /\ cfg.Dimensions = 3 /\ cfg.LutBits = 3
    /\ At(LookupTable, 7) = Bits(73)
    /\ Len(LookupTable) = 8

\* C8: whatever the interleaving of the table reads of the concurrent calls,
\* an Encode call returns what the same call returns when executed alone on
\* the constructed table; so calls with identical arguments return identical
\* results.
C8_ConcurrentEncode ==
    \A t \in Threads :
        (thr[t].pc = "done" /\ thr[t].op = "Encode")
            => /\ thr[t].result = Encode(cfg, BuildLut(cfg), thr[t].args)
               /\ \A u \in Threads :
                     (thr[u].pc = "done" /\ thr[u].op = "Encode" /\ thr[u].args = thr[t].args)
                         => thr[u].result = thr[t].result

\* two calls with identical arguments in flight at once, one returned while
\* the other has read part of its entries
C8_Witness ==
    \E t, u \in Threads :
        /\ t # u
        /\ thr[t].pc = "done" /\ thr[t].op = "Encode"
        /\ thr[u].pc = "reading" /\ thr[u].args = thr[t].args
        /\ thr[t].result # {}
        /\ DOMAIN thr[u].reads # {}
        /\ DOMAIN thr[u].reads # Lookups(cfg)

\* C9: no call starts before construction has completed; construction
\* completes with the whole table built; from then on the instance stays
\* built and no step (of Encode or InputMask) changes the table.
C9_TableFrozen ==
    [][/\ (phase # "built") => (\A t \in Threads : thr'[t] = IdleThread)
       /\ (phase' = "built") => (Len(LookupTable') = 2^cfg.LutBits)
       /\ (phase = "built") => (phase' = "built" /\ LookupTable' = LookupTable)]_vars

\* calls have run on the built table: one returned, one reading
C9_Witness ==
    /\ phase = "built"
    /\ cfg.LutBits = 2
    /\ LookupTable = BuildLut(cfg)
    /\ \E t, u \in Threads :
          /\ thr[t].pc = "done" /\ thr[t].op = "Encode"
          /\ thr[u].pc = "done" /\ thr[u].op = "InputMask"

\* C11: when FieldBits is not a multiple of LutBits, Encode of in-range
\* arguments is still the reference interleave; the index of the last chunk
\* of every field has only its PartialBits low bits, so the entry read has
\* zeros above them; the shift amounts are below the width of T and no entry
\* is shifted to a position outside T; no result bit is at a position
\* >= Dimensions * FieldBits.
C11_PartialLastChunk ==
    (Encoded /\ ArgsInRange /\ PartialBits(cfg) # 0)
        => /\ last.result = Interleave(cfg, last.args)
           /\ \A k \in Fields(cfg) :
                 LET i == last.idx[<<k, ChunkCount(cfg)>>]
                 IN  /\ i < 2^PartialBits(cfg)
                     /\ At(LookupTable, i) \subseteq 0..(cfg.Dimensions * PartialBits(cfg) - 1)
           /\ cfg.LutBits < Width(cfg.T)
           /\ cfg.Dimensions * cfg.LutBits < Width(cfg.T)
           /\ \A p \in DOMAIN last.idx : \A b \in At(LookupTable, last.idx[p]) :
                 b + (p[2] - 1) * cfg.Dimensions * cfg.LutBits + p[1] < Width(cfg.T)
           /\ last.result \subseteq 0..(cfg.Dimensions * cfg.FieldBits - 1)

\* the preset <2, 32, 11>: the third chunk of each field holds 10 bits
C11_Witness ==
    /\ Encoded
    /\ cfg = Config(2, 32, 11, U(64))
    /\ last.args = [k \in Fields(cfg) |-> 0..31]
    /\ last.idx[<<0, 3>>] = 1023
    /\ last.result = 0..63

\* C12: for every call, with in-range or dirty arguments, every table index
\* computed is at most 2^LutBits - 1 and inside the table, the conversion of
\* field & ChunkMask to std::size_t loses nothing, and the call has one
\* defined outcome.
C12_IndexInTable ==
    Encoded
        => /\ \A p \in DOMAIN last.idx :
                 LET v == And(ChunkField(cfg, last.args[p[1]], p[2]), ChunkMask(cfg))
                 IN  /\ last.idx[p] <= 2^cfg.LutBits - 1
                     /\ InBounds(LookupTable, last.idx[p])
                     /\ Trunc(v, SizeT.digits) = v
                     /\ Val(v) = last.idx[p]
           /\ EncodeOutcomes(cfg, LookupTable, last.args) = {last.result}

\* a call with a dirty bit above FieldBits that reads the last table entry
C12_Witness ==
    /\ Encoded
    /\ cfg = Config(2, 3, 2, U(8))
    /\ last.args = Pair(15, 0)
    /\ ~ArgsInRange
    /\ last.idx[<<0, 2>>] = 3
    /\ Len(LookupTable) = 4

\* ceil(a / b): the least q with q * b >= a
CeilDiv(a, b) == CHOOSE q \in 0..a : q * b >= a /\ (q - 1) * b < a

\* C13: for every valid configuration ChunkCount is ceil(FieldBits / LutBits),
\* and every Encode call, whatever its arguments, looks up each field exactly
\* that many times: Dimensions * ceil(FieldBits / LutBits) lookups in total.
C13_LookupCount ==
    /\ phase \in {"building", "built"}
          => ChunkCount(cfg) = CeilDiv(cfg.FieldBits, cfg.LutBits)
    /\ Encoded
          => /\ \A k \in Fields(cfg) :
                   Cardinality({p \in DOMAIN last.idx : p[1] = k})
                       = CeilDiv(cfg.FieldBits, cfg.LutBits)
             /\ Cardinality(DOMAIN last.idx)
                   = cfg.Dimensions * CeilDiv(cfg.FieldBits, cfg.LutBits)

\* the preset <3, 21, 11> called with all fields zero: 3 * 2 lookups
C13_Witness ==
    /\ Encoded
    /\ cfg = Config(3, 21, 11, U(64))
    /\ \A k \in Fields(cfg) : last.args[k] = {}
    /\ ChunkCount(cfg) = 2
    /\ Cardinality(DOMAIN last.idx) = 6

\* C14: for in-range arguments, at every | of the call (the n-th nested
\* LookupField call of every field, n < ChunkCount; EncodeInternal of every
\* field but the last) the value returned is the | of the two operands, the
\* operands have no bit in common, and the left shift that made the left
\* operand dropped no bit and gave a value below 2^(Dimensions * FieldBits);
\* the conversion of a table entry to T drops no bit.
C14_DisjointOperands ==
    (Encoded /\ ArgsInRange)
        => LET reads == TableReads(cfg, LookupTable, last.args)
               below == 0..(cfg.Dimensions * cfg.FieldBits - 1)
           IN  /\ \A k \in Fields(cfg) : \A n \in 1..(ChunkCount(cfg) - 1) :
                     LET rd == FieldReads(cfg, reads, k)
                         sh == LookupFieldShifted(cfg, rd, n)
                         en == LookupFieldEntry(cfg, rd, n)
                     IN  /\ LookupField(cfg, rd, n) = ToT(cfg.T, Or(sh, en))
                         /\ And(sh, en) = {}
                         /\ Cardinality(sh) = Cardinality(LookupField(cfg, rd, n + 1))
                         /\ sh \subseteq below
               /\ \A k \in 0..(cfg.Dimensions - 2) :
                     LET sh == EncodeInternalShifted(cfg, reads, k)
                         lf == LookupField(cfg, FieldReads(cfg, reads, k), 1)
                     IN  /\ EncodeInternal(cfg, reads, k) = ToT(cfg.T, Or(sh, lf))
                         /\ And(sh, lf) = {}
                         /\ Cardinality(sh) = Cardinality(EncodeInternal(cfg, reads, k + 1))
                         /\ sh \subseteq below
               /\ \A p \in Lookups(cfg) : ToT(cfg.T, reads[p]) = reads[p]
               /\ last.result = EncodeInternal(cfg, reads, 0)

\* the preset <3, 21, 11> with every field 2^21 - 1: both kinds of | act on
\* non-zero operands and the result has all 63 bits
C14_Witness ==
    /\ Encoded
    /\ cfg = Config(3, 21, 11, U(64))
    /\ last.args = [k \in Fields(cfg) |-> 0..20]
    /\ LookupFieldShifted(cfg, FieldReads(cfg, TableReads(cfg, LookupTable, last.args), 0), 1) # {}
    /\ EncodeInternalShifted(cfg, TableReads(cfg, LookupTable, last.args), 0) # {}
    /\ last.result = 0..62

\* configurations of at most this many result bits are compared on every
\* pair of in-range tuples
MaxOrderBits == 6

\* x < y and x <= y as unsigned integers
Less(x, y) ==
    /\ x # y
    /\ LET d == (x \ y) \cup (y \ x)
       IN  (CHOOSE m \in d : \A e \in d : e <= m) \in y
Leq(x, y) == x = y \/ Less(x, y)

\* x + 1, for x # 2^w - 1
Succ(x, w) ==
    LET z == CHOOSE z \in 0..(w - 1) : z \notin x /\ \A b \in 0..(z - 1) : b \in x
    IN  (x \ (0..z)) \cup {z}

\* the in-range tuples a call with arguments a is compared with: every tuple
\* for a configuration of at most MaxOrderBits result bits; otherwise a with
\* one field incremented, all fields 0, and all fields 2^FieldBits - 1
Comparands(c, a) ==
    IF c.Dimensions * c.FieldBits <= MaxOrderBits
    THEN [Fields(c) -> SUBSET (0..(c.FieldBits - 1))]
    ELSE {[k \in Fields(c) |-> IF k = j THEN Succ(a[j], c.FieldBits) ELSE a[k]] :
             j \in {i \in Fields(c) : a[i] # 0..(c.FieldBits - 1)}}
         \cup {[k \in Fields(c) |-> {}], [k \in Fields(c) |-> 0..(c.FieldBits - 1)]}

\* C15: for in-range tuples a and b with a[k] <= b[k] in every field,
\* Encode(a) <= Encode(b), and Encode(a) < Encode(b) when a # b; and in-range
\* tuples that differ have different codes.
C15_Monotone ==
    (Encoded /\ ArgsInRange)
        => \A b \in Comparands(cfg, last.args) :
              LET eb == Encode(cfg, LookupTable, b)
              IN  /\ (\A k \in Fields(cfg) : Leq(last.args[k], b[k]))
                        => /\ Leq(last.result, eb)
                           /\ b # last.args => Less(last.result, eb)
                  /\ (\A k \in Fields(cfg) : Leq(b[k], last.args[k]))
                        => Leq(eb, last.result)
                  /\ b # last.args => eb # last.result

\* <2, 3, 2>: (3, 4) is dominated by (4, 4), and 37 < 48
C15_Witness ==
    /\ Encoded
    /\ cfg = Config(2, 3, 2, U(8))
    /\ last.args = Pair(3, 4)
    /\ last.result = Bits(37)
    /\ Pair(4, 4) \in Comparands(cfg, last.args)
    /\ Encode(cfg, LookupTable, Pair(4, 4)) = Bits(48)
    /\ Less(last.result, Bits(48))

====
